---- MODULE Spec2Model ----
(***************************************************************************)
(* A model of voice_log: the post store (voice_posts, post_analytics), the *)
(* upload directory, the request handlers of the posts and api blueprints, *)
(* and the pure helpers they use (filename and slug generation).           *)
(*                                                                         *)
(* Text is modelled as a sequence of tokens.  A token stands for a run of  *)
(* characters of one class: a lowercase ASCII word ("memo"), a word with   *)
(* uppercase ASCII letters ("Hello"), "_", "-", " ", ".", punctuation      *)
(* ("!"), a non-ASCII letter ("é"), or the 8 hexadecimal characters that   *)
(* uuid4 contributes ("0a1b2c3d").                                         *)
(***************************************************************************)
EXTENDS Integers, Sequences, FiniteSets, TLC

VARIABLES
    voice_posts,     \* committed rows of voice_posts: id -> row
    post_analytics,  \* committed rows of post_analytics: id -> row
    nextPostId,      \* AUTOINCREMENT sequence of voice_posts
    nextAnalyticsId, \* AUTOINCREMENT sequence of post_analytics
    files,           \* the files under UPLOAD_FOLDER (and converted/)
    uploads,         \* number of upload requests accepted so far
    resp,            \* the answer to the last HTTP request
    pc,              \* per thread: where it is in its model-layer call
    loc,             \* per thread: the locals of that call
    txn,             \* the thread holding SQLite's write lock, or NoThread
    calls,           \* model-layer calls: started, and increments committed
    title,           \* the title given to _generate_unique_slug
    slug,            \* the slug it returned
    upl,             \* the last call of a helper on its own: its input and result
    users,           \* committed rows of users: id -> row
    tags             \* committed rows of tags: id -> row

vars == <<voice_posts, post_analytics, nextPostId, nextAnalyticsId, files,
          uploads, resp, pc, loc, txn, calls, title, slug, upl, users, tags>>

NULL == "NULL"

\* A NULL in a column that holds a token sequence (a path).
NullPath == <<"NULL">>

-----------------------------------------------------------------------------
(* Tokens *)

HexSuffixes == {"0a1b2c3d", "deadbeef"}

ALLOWED_AUDIO_EXTENSIONS == {"mp3", "wav", "flac", "m4a", "aac", "ogg", "webm"}

LowerWords == {"memo", "note", "exe"} \cup ALLOWED_AUDIO_EXTENSIONS

UpperWords == {"Hello", "WAV", "Voice", "Note"}

NonAsciiLetters == {"é", "É"}

Punctuation == {"!", ".", "/"}

\* str.lower()
Lower(tok) ==
    CASE tok = "Hello" -> "hello"
      [] tok = "WAV" -> "wav"
      [] tok = "Voice" -> "voice"
      [] tok = "Note" -> "note"
      [] tok = "É" -> "é"
      [] OTHER -> tok

LowerSeq(s) == [i \in 1..Len(s) |-> Lower(s[i])]

\* [a-z0-9]
LowerAsciiAlnum == LowerWords \cup {"hello", "voice"} \cup HexSuffixes

\* \w of a str pattern: Unicode letters, digits and the underscore
WordChars == LowerAsciiAlnum \cup UpperWords \cup NonAsciiLetters \cup {"_"}

\* \s
SpaceChars == {" "}

Tokens == WordChars \cup SpaceChars \cup Punctuation \cup {"-"}

RECURSIVE Filter(_, _)
Filter(s, keep) ==
    IF s = <<>> THEN <<>>
    ELSE IF Head(s) \in keep THEN <<Head(s)>> \o Filter(Tail(s), keep)
    ELSE Filter(Tail(s), keep)

RECURSIVE LStrip(_, _)
LStrip(s, drop) ==
    IF s # <<>> /\ Head(s) \in drop THEN LStrip(Tail(s), drop) ELSE s

RECURSIVE RStrip(_, _)
RStrip(s, drop) ==
    IF s # <<>> /\ s[Len(s)] \in drop
    THEN RStrip(SubSeq(s, 1, Len(s) - 1), drop)
    ELSE s

\* str.strip(chars)
Strip(s, drop) == RStrip(LStrip(s, drop), drop)

\* re.sub(r'[run]+', rep, s): every maximal run of tokens of the class
\* becomes one rep
RECURSIVE CollapseRuns(_, _, _)
CollapseRuns(s, run, rep) ==
    IF s = <<>> THEN <<>>
    ELSE IF Head(s) \in run
         THEN <<rep>> \o CollapseRuns(LStrip(s, run), run, rep)
         ELSE <<Head(s)>> \o CollapseRuns(Tail(s), run, rep)

\* The index of the last token of s that is in set, 0 when there is none
LastIndexOf(s, set) ==
    LET I == {i \in 1..Len(s) : s[i] \in set}
    IN  IF I = {} THEN 0 ELSE CHOOSE i \in I : \A j \in I : j <= i

-----------------------------------------------------------------------------
(* Slugs *)

\* VoicePost._generate_unique_slug, with the value uuid4 gave
_generate_unique_slug(t, unique_suffix) ==
    LET kept == Filter(LowerSeq(t), WordChars \cup SpaceChars \cup {"-"})
        base_slug == Strip(CollapseRuns(kept, SpaceChars \cup {"-"}, "-"), {"-"})
    IN  base_slug \o <<"-", unique_suffix>>

\* re.match(r'^[a-z0-9-]+-[0-9a-f]{8}$', s)
MatchesSlugPattern(s) ==
    /\ Len(s) >= 3
    /\ s[Len(s)] \in HexSuffixes
    /\ s[Len(s) - 1] = "-"
    /\ \A i \in 1..(Len(s) - 2) : s[i] \in LowerAsciiAlnum \cup {"-"}

-----------------------------------------------------------------------------
(* File names *)

MAX_FILE_SIZE == 50 * 1024 * 1024

\* werkzeug.utils.secure_filename: path separators become spaces, runs of
\* whitespace become one "_", every character outside [A-Za-z0-9_.-] is
\* removed, leading and trailing "." and "_" are stripped
secure_filename(f) ==
    LET spaced == [i \in 1..Len(f) |-> IF f[i] = "/" THEN " " ELSE f[i]]
        joined == CollapseRuns(Strip(spaced, SpaceChars), SpaceChars, "_")
        ascii  == Filter(joined, LowerAsciiAlnum \cup UpperWords \cup {"_", ".", "-"})
    IN  Strip(ascii, {".", "_"})

\* os.path.splitext: the extension starts at the last dot, unless only dots
\* come before it
splitext(f) ==
    LET i == LastIndexOf(f, {"."})
    IN  IF i > 0 /\ \E j \in 1..(i - 1) : f[j] # "."
        THEN <<SubSeq(f, 1, i - 1), SubSeq(f, i, Len(f))>>
        ELSE <<f, <<>>>>

allowed_audio_file(f) ==
    LET i == LastIndexOf(f, {"."})
    IN  /\ i > 0
        /\ LowerSeq(SubSeq(f, i + 1, Len(f))) \in {<<e>> : e \in ALLOWED_AUDIO_EXTENSIONS}

\* get_unique_filename, with the value uuid4 gave
get_unique_filename(f, hex) ==
    LET parts == splitext(secure_filename(f))
    IN  parts[1] \o <<"_", hex>> \o parts[2]

\* What file.save can do: write the file, fail before creating it, or fail
\* after creating it
SaveOutcomes == {"saved", "open_failed", "write_failed"}

\* A save_audio_file that measures the file after it saved it
save_audio_file_size_last(file, dir, hex, outcome) ==
    IF ~file.present \/ file.filename = <<>>
    THEN [filename |-> NullPath, error |-> "No file selected", dir |-> dir]
    ELSE IF ~allowed_audio_file(file.filename)
    THEN [filename |-> NullPath, error |-> "File type not allowed", dir |-> dir]
    ELSE IF file.size > MAX_FILE_SIZE
    THEN [filename |-> NullPath, error |-> "File too large",
          dir |-> dir \cup {get_unique_filename(file.filename, hex)}]
    ELSE [filename |-> get_unique_filename(file.filename, hex), error |-> NULL,
          dir |-> dir \cup {get_unique_filename(file.filename, hex)}]

\* save_audio_file(file, upload_folder) on a directory holding dir.  file.present
\* is the truth value of the FileStorage.  The result: the returned pair and the
\* directory afterwards.
save_audio_file(file, dir, hex, outcome) ==
    IF ~file.present \/ file.filename = <<>>
    THEN [filename |-> NullPath, error |-> "No file selected", dir |-> dir]
    ELSE IF ~allowed_audio_file(file.filename)
    THEN [filename |-> NullPath, error |-> "File type not allowed", dir |-> dir]
    ELSE IF file.size > MAX_FILE_SIZE
    THEN [filename |-> NullPath, error |-> "File too large", dir |-> dir]
    ELSE LET filename == get_unique_filename(file.filename, hex)
         IN  CASE outcome = "saved" ->
                    [filename |-> filename, error |-> NULL, dir |-> dir \cup {filename}]
               [] outcome = "write_failed" ->
                    [filename |-> NullPath, error |-> "Error saving file",
                     dir |-> dir \cup {filename}]
               [] OTHER ->
                    [filename |-> NullPath, error |-> "Error saving file", dir |-> dir]

\* AudioService.is_mp3
is_mp3(f) == f # <<>> /\ splitext(LowerSeq(f))[2] = <<".", "mp3">>

-----------------------------------------------------------------------------
(* The store *)

Anonymous == 0

\* users rows: the administrator init_database inserts and one registered user
Users == {1, 2}

Requesters == Users \cup {Anonymous}

\* CHECK (privacy_level IN ('public', 'unlisted', 'private'))
PrivacyLevels == {"public", "unlisted", "private"}

\* The columns of voice_posts: what dict(row) of SELECT * holds
VoicePostColumns ==
    {"id", "user_id", "title", "slug", "audio_filename", "converted_mp3_path",
     "header_image", "transcript", "summary", "duration_seconds",
     "privacy_level", "is_published", "created_at", "updated_at"}

\* The keyword parameters VoicePost.__init__ accepts, which are also the
\* attributes it sets
VoicePostInitParams ==
    {"id", "user_id", "title", "slug", "audio_filename", "transcript", "summary",
     "duration_seconds", "privacy_level", "is_published", "created_at",
     "updated_at", "converted_mp3_path"}

\* The methods of class VoicePost
VoicePostMethods ==
    {"create", "get_by_id", "get_by_slug", "get_public_posts", "get_by_user",
     "_generate_unique_slug", "update", "delete", "get_audio_url",
     "get_audio_path", "has_mp3_version", "get_public_url",
     "increment_view_count", "increment_play_count", "get_analytics",
     "format_duration"}

\* cls(**dict(row)) raises TypeError when the row holds a key that is no
\* parameter of __init__
RowCtorRaises == ~(VoicePostColumns \subseteq VoicePostInitParams)

\* get_db_connection issues no PRAGMA foreign_keys = ON, and SQLite enforces
\* foreign keys (ON DELETE CASCADE among them) only with it
ForeignKeysOn == FALSE

EmptyTable == [i \in {} |-> NULL]

\* A voice_posts table whose slug column is not UNIQUE
InsertPostAllowedNoUnique(posts, row) == row.privacy_level \in PrivacyLevels

\* The INSERT of VoicePost.create violates no constraint of voice_posts:
\* slug UNIQUE and the CHECK on privacy_level
InsertPostAllowed(posts, row) ==
    /\ row.privacy_level \in PrivacyLevels
    /\ \A i \in DOMAIN posts : posts[i].slug # row.slug

\* The row the INSERT of VoicePost.create writes for the arguments args of
\* create (is_published and the timestamps take their column defaults)
NewPostRow(id, args, sl, converted_mp3_path) ==
    [id |-> id, user_id |-> args.user_id, title |-> args.title, slug |-> sl,
     audio_filename |-> args.audio_filename,
     converted_mp3_path |-> converted_mp3_path, header_image |-> NullPath,
     transcript |-> args.transcript, summary |-> args.summary,
     duration_seconds |-> args.duration_seconds,
     privacy_level |-> args.privacy_level,
     is_published |-> TRUE, updated_at |-> 0]

NewAnalyticsRow(post_id) ==
    [post_id |-> post_id, view_count |-> 0, play_count |-> 0, last_viewed |-> NULL]

\* The rows of post_analytics of post i
AnalyticsOf(analytics, i) == {a \in DOMAIN analytics : analytics[a].post_id = i}

\* SELECT * FROM voice_posts WHERE slug = ?
RowsBySlug(posts, sl) == {i \in DOMAIN posts : posts[i].slug = sl}

\* VoicePost.get_by_slug: no handler catches what the constructor raises
get_by_slug(posts, sl) ==
    IF RowsBySlug(posts, sl) = {} THEN [kind |-> "None"]
    ELSE IF RowCtorRaises THEN [kind |-> "TypeError"]
    ELSE [kind |-> "post", id |-> CHOOSE i \in RowsBySlug(posts, sl) : TRUE]

\* VoicePost.get_by_id: answers None when the constructor raises
get_by_id(posts, id) ==
    IF id \notin DOMAIN posts THEN [kind |-> "None"]
    ELSE IF RowCtorRaises THEN [kind |-> "None"]
    ELSE [kind |-> "post", id |-> id]

\* The rows VoicePost.get_public_posts selects
PublicRows(posts) ==
    {i \in DOMAIN posts : posts[i].privacy_level = "public" /\ posts[i].is_published}

\* The rows VoicePost.get_by_user selects
UserRows(posts, user_id, include_private) ==
    {i \in DOMAIN posts :
        /\ posts[i].user_id = user_id
        /\ (include_private \/ posts[i].privacy_level = "public")}

\* A listing builds one object per selected row
ListingRaises(rows) == rows # {} /\ RowCtorRaises

\* VoicePost.update: the UPDATE statement, none when no supplied field is
\* updateable; an UPDATE that the CHECK on privacy_level rejects is rolled back
updateable_fields == {"title", "transcript", "summary", "privacy_level", "is_published"}

UpdateRow(row, kwargs) ==
    LET set == DOMAIN kwargs \cap updateable_fields
    IN  IF set = {} THEN row
        ELSE [f \in DOMAIN row |->
                IF f \in set THEN kwargs[f]
                ELSE IF f = "updated_at" THEN row.updated_at + 1
                ELSE row[f]]

update(posts, id, kwargs) ==
    IF id \in DOMAIN posts /\ UpdateRow(posts[id], kwargs).privacy_level \in PrivacyLevels
    THEN [posts EXCEPT ![id] = UpdateRow(posts[id], kwargs)]
    ELSE posts

\* The UPDATE of increment_view_count
increment_view_count(analytics, post_id) ==
    [a \in DOMAIN analytics |->
        IF analytics[a].post_id = post_id
        THEN [analytics[a] EXCEPT !.view_count = @ + 1, !.last_viewed = "now"]
        ELSE analytics[a]]

\* The UPDATE of increment_play_count
increment_play_count(analytics, post_id) ==
    [a \in DOMAIN analytics |->
        IF analytics[a].post_id = post_id
        THEN [analytics[a] EXCEPT !.play_count = @ + 1]
        ELSE analytics[a]]

\* DELETE FROM voice_posts WHERE id = ?
DeletePostRow(posts, id) == [i \in DOMAIN posts \ {id} |-> posts[i]]

\* What the DELETE leaves of post_analytics
CascadeAnalytics(analytics, id) ==
    IF ForeignKeysOn
    THEN [a \in {x \in DOMAIN analytics : analytics[x].post_id # id} |-> analytics[a]]
    ELSE analytics

-----------------------------------------------------------------------------
(* Conversion and enrichment *)

\* How a run of ffmpeg can end
ConvOutcomes == {"ok", "no_ffmpeg", "nonzero_exit", "empty_output", "timeout"}

\* The path AudioService.convert_to_mp3 writes, relative to UPLOAD_FOLDER
ConvertedPath(audio_filename) ==
    <<"converted/">> \o splitext(audio_filename)[1] \o <<"_converted", ".", "mp3">>

\* A convert_to_mp3 that takes exit status 0 for success without looking at
\* the size of the output file
convert_to_mp3_no_size_check(audio_filename, dir, outcome) ==
    IF audio_filename \notin dir THEN [success |-> FALSE, dir |-> dir]
    ELSE CASE outcome \in {"ok", "empty_output"} ->
                [success |-> TRUE, dir |-> dir \cup {ConvertedPath(audio_filename)}]
           [] outcome = "timeout" ->
                [success |-> FALSE, dir |-> dir \cup {ConvertedPath(audio_filename)}]
           [] OTHER -> [success |-> FALSE, dir |-> dir]

\* AudioService.convert_to_mp3 on a directory holding dir: whether it
\* succeeded, and the directory afterwards (ffmpeg -y creates the output file
\* before it fails on a timeout or with an empty result)
convert_to_mp3(audio_filename, dir, outcome) ==
    IF audio_filename \notin dir THEN [success |-> FALSE, dir |-> dir]
    ELSE CASE outcome = "ok" ->
                [success |-> TRUE, dir |-> dir \cup {ConvertedPath(audio_filename)}]
           [] outcome \in {"empty_output", "timeout"} ->
                [success |-> FALSE, dir |-> dir \cup {ConvertedPath(audio_filename)}]
           [] OTHER -> [success |-> FALSE, dir |-> dir]

\* Text that is no file name or title (a transcript, a summary) is a sequence
\* of blocks of ten characters; NullPath is its None
Block == "0123456789"

Text(n) == [i \in 1..n |-> Block]

\* len(text)
Chars(text) == 10 * Len(text)

\* TranscriptionService._get_api_provider, from whether GEMINI_API_KEY and
\* OPENAI_API_KEY hold a non-empty value
_get_api_provider(gemini_key, openai_key) ==
    IF gemini_key THEN "gemini" ELSE IF openai_key THEN "openai" ELSE NULL

NoApiKey == "No API key configured (neither OPENAI_API_KEY nor GEMINI_API_KEY)"

\* What a request to a provider can give: the pair (value, error) of
\* _transcribe_with_*, _generate_title_with_* and _generate_summary_with_*
TranscribeResults ==
    {[val |-> Text(n), err |-> NULL] : n \in {0, 1, 3, 20, 21}}
        \cup {[val |-> NullPath, err |-> "Transcription error"]}

TitleResults ==
    {[val |-> <<"Note">>, err |-> NULL], [val |-> <<>>, err |-> "Title generation error"]}

SummaryResults ==
    {[val |-> <<"summary">>, err |-> NULL],
     [val |-> NullPath, err |-> "Summary generation error"]}

\* not transcript or len(transcript.strip()) < n
ShorterThan(transcript, n) == transcript = NullPath \/ Chars(transcript) < n

\* A transcribe_audio that asks a provider without looking for a key
transcribe_audio_no_key_check(provider, result) ==
    result @@ [request |-> TRUE]

\* TranscriptionService.transcribe_audio; request: whether it asked a provider
transcribe_audio(provider, result) ==
    IF provider = NULL
    THEN [val |-> NullPath, err |-> NoApiKey, request |-> FALSE]
    ELSE result @@ [request |-> TRUE]

\* TranscriptionService.generate_title
generate_title(provider, transcript, result) ==
    IF provider = NULL
    THEN [val |-> <<"Voice", " ", "Note">>, err |-> NULL, request |-> FALSE]
    ELSE IF ShorterThan(transcript, 20)
    THEN [val |-> <<"Quick", " ", "Voice", " ", "Note">>, err |-> NULL, request |-> FALSE]
    ELSE result @@ [request |-> TRUE]

\* TranscriptionService.generate_summary
generate_summary(provider, transcript, result) ==
    IF provider = NULL
    THEN [val |-> NullPath, err |-> NoApiKey, request |-> FALSE]
    ELSE IF ShorterThan(transcript, 50)
    THEN [val |-> <<"Brief voice note">>, err |-> NULL, request |-> FALSE]
    ELSE result @@ [request |-> TRUE]

\* transcript[:200] + "..." if len(transcript) > 200 else transcript
SummaryFallback(transcript) ==
    IF Chars(transcript) > 200 THEN Append(SubSeq(transcript, 1, 20), "...")
    ELSE transcript

\* A composite that goes on to the title and the summary after a failed
\* transcription
process_audio_complete_no_abort(provider, tr_result, ti_result, su_result) ==
    LET tr == transcribe_audio(provider, tr_result)
        ti == generate_title(provider, tr.val, ti_result)
        su == generate_summary(provider, tr.val, su_result)
    IN  [calls |-> <<"transcribe_audio", "generate_title", "generate_summary">>,
         title |-> IF ti.err # NULL THEN <<"Voice", " ", "Note">> ELSE ti.val,
         error |-> tr.err,
         transcript |-> tr.val,
         summary |-> IF su.err # NULL THEN NullPath ELSE su.val]

\* TranscriptionService.process_audio_complete with the provider the keys give
\* and what the provider would answer to each of the three requests; calls:
\* the enrichment functions it called, in order
process_audio_complete(provider, tr_result, ti_result, su_result) ==
    LET tr == transcribe_audio(provider, tr_result)
        ti == generate_title(provider, tr.val, ti_result)
        su == generate_summary(provider, tr.val, su_result)
    IN  IF tr.err # NULL
        THEN [calls |-> <<"transcribe_audio">>, title |-> <<>>, error |-> tr.err,
              transcript |-> NullPath, summary |-> NullPath]
        ELSE [calls |-> <<"transcribe_audio", "generate_title", "generate_summary">>,
              title |-> IF ti.err # NULL THEN <<"Voice", " ", "Note">> ELSE ti.val,
              error |-> NULL,
              transcript |-> tr.val,
              summary |-> IF su.err # NULL THEN SummaryFallback(tr.val) ELSE su.val]

\* VoicePost.create run to completion on the store db = [posts, analytics,
\* nextPostId, nextAnalyticsId, files]: the store afterwards and what
\* create did ("raise", "None" or "post")
VoicePost_create(db, args, hex, conv) ==
    LET sl == _generate_unique_slug(args.title, hex)
        cv == IF is_mp3(args.audio_filename)
              THEN [success |-> FALSE, dir |-> db.files]
              ELSE convert_to_mp3(args.audio_filename, db.files, conv)
        converted_mp3_path ==
            IF cv.success THEN ConvertedPath(args.audio_filename) ELSE NullPath
        row == NewPostRow(db.nextPostId, args, sl, converted_mp3_path)
    IN  IF ~InsertPostAllowed(db.posts, row)
        THEN [db EXCEPT !.files = cv.dir] @@ [ret |-> "raise", id |-> 0]
        ELSE [posts |-> (db.nextPostId :> row) @@ db.posts,
              analytics |-> (db.nextAnalyticsId :> NewAnalyticsRow(db.nextPostId))
                                @@ db.analytics,
              nextPostId |-> db.nextPostId + 1,
              nextAnalyticsId |-> db.nextAnalyticsId + 1,
              files |-> cv.dir,
              ret |-> IF get_by_id((db.nextPostId :> row) @@ db.posts,
                                   db.nextPostId).kind = "post"
                      THEN "post" ELSE "None",
              id |-> db.nextPostId]

UPLOAD_FOLDER == <<"uploads/">>

\* VoicePost.get_audio_url of an object with the values of the row post
get_audio_url(post) ==
    <<"/posts/audio/">>
        \o (IF post.converted_mp3_path # NullPath THEN post.converted_mp3_path
            ELSE post.audio_filename)

\* VoicePost.get_audio_path
get_audio_path(post) ==
    UPLOAD_FOLDER
        \o (IF post.converted_mp3_path # NullPath THEN post.converted_mp3_path
            ELSE post.audio_filename)

-----------------------------------------------------------------------------
(* Requests *)

\* The most uploads a run accepts
MaxUploads == 2

\* The most a counter is raised in a run
MaxCount == 2

dbVars == <<voice_posts, post_analytics, nextPostId, nextAnalyticsId>>

threadVars == <<pc, loc, txn, calls>>

pureVars == <<title, slug, upl>>

authVars == <<users, tags>>

TheStore ==
    [posts |-> voice_posts, analytics |-> post_analytics,
     nextPostId |-> nextPostId, nextAnalyticsId |-> nextAnalyticsId,
     files |-> files]

\* The answer to a request: its status ("error" is a JSON body with
\* success false) and the posts whose content the body holds
Respond(op, status, shown) ==
    resp' = [op |-> op, status |-> status, shown |-> shown]

\* A request that changes nothing
Answer(op, a) ==
    /\ Respond(op, a.status, a.shown)
    /\ UNCHANGED <<dbVars, files, uploads>>

Status(status) == [status |-> status, shown |-> {}, id |-> 0]

\* The store after VoicePost.create returned c
StoreBecomes(c) ==
    /\ voice_posts' = c.posts
    /\ post_analytics' = c.analytics
    /\ nextPostId' = c.nextPostId
    /\ nextAnalyticsId' = c.nextAnalyticsId
    /\ files' = c.files

\* What the handlers see of process_audio_complete: every result its three
\* calls can give
\* What process_audio_complete can return
ProcessResults ==
    {process_audio_complete(provider, tr, ti, su) :
        provider \in {NULL, "gemini", "openai"},
        tr \in TranscribeResults, ti \in TitleResults, su \in SummaryResults}

\* auto_process is off: process_audio_complete is not called
NoProcessing ==
    [transcript |-> NullPath, title |-> <<>>, summary |-> NullPath, error |-> NULL,
     calls |-> <<>>]

\* create_post, POST.  In holds the sets the request's inputs are drawn from.
create_post(who, In) ==
    \E form_title \in In.titles, form_privacy \in In.privacy, has_file \in In.has_file,
       file \in In.files :
        LET privacy_level ==
                IF form_privacy \notin PrivacyLevels THEN "public" ELSE form_privacy
        IN
        IF who = Anonymous
        THEN Answer("create_post", Status("302"))
        ELSE IF ~has_file \/ file.filename = <<>>
        THEN Answer("create_post", Status("200"))
        ELSE \E hex1 \in In.hex, outcome \in In.save :
            LET saved == save_audio_file(file, files, hex1, outcome)
            IN
            IF saved.error # NULL
            THEN /\ Respond("create_post", "200", {})
                 /\ files' = saved.dir
                 /\ UNCHANGED <<dbVars, uploads>>
            ELSE \E duration \in In.durations,
                    proc \in In.auto_process,
                    hex2 \in In.hex, conv \in In.conv :
                LET auto_process == proc # NoProcessing
                    from_ai ==
                        IF auto_process /\ proc.error = NULL
                           /\ form_title = <<>> /\ proc.title # <<>>
                        THEN proc.title ELSE form_title
                    generated_title ==
                        IF from_ai = <<>> THEN splitext(file.filename)[1] ELSE from_ai
                    args == [user_id |-> who, title |-> generated_title,
                             audio_filename |-> saved.filename,
                             transcript |-> proc.transcript,
                             summary |-> proc.summary,
                             duration_seconds |-> duration,
                             privacy_level |-> privacy_level]
                    c == VoicePost_create([TheStore EXCEPT !.files = saved.dir],
                                          args, hex2, conv)
                IN  /\ uploads < MaxUploads
                    /\ uploads' = uploads + 1
                    /\ StoreBecomes(c)
                    /\ IF c.ret = "post"
                       THEN \E selected_tags \in In.tags :
                               Respond("create_post",
                                       IF selected_tags = {} \/ "set_tags" \in VoicePostMethods
                                       THEN "302" ELSE "200", {})
                       ELSE Respond("create_post", "200", {})

\* upload_quick
upload_quick(who, In) ==
    \E form_title \in In.titles, form_privacy \in In.privacy, has_file \in In.has_file,
       file \in In.files :
        IF who = Anonymous
        THEN Answer("upload_quick", Status("302"))
        ELSE IF ~has_file
        THEN Answer("upload_quick", Status("error"))
        ELSE \E hex1 \in In.hex, outcome \in In.save :
            LET saved == save_audio_file(file, files, hex1, outcome)
            IN
            IF saved.error # NULL
            THEN /\ Respond("upload_quick", "error", {})
                 /\ files' = saved.dir
                 /\ UNCHANGED <<dbVars, uploads>>
            ELSE \E duration \in In.durations, hex2 \in In.hex, conv \in In.conv :
                LET t == IF form_title = <<>> THEN splitext(file.filename)[1]
                         ELSE form_title
                    args == [user_id |-> who, title |-> t,
                             audio_filename |-> saved.filename,
                             transcript |-> NullPath, summary |-> NullPath,
                             duration_seconds |-> duration,
                             privacy_level |-> form_privacy]
                    c == VoicePost_create([TheStore EXCEPT !.files = saved.dir],
                                          args, hex2, conv)
                IN  /\ uploads < MaxUploads
                    /\ uploads' = uploads + 1
                    /\ StoreBecomes(c)
                    /\ Respond("upload_quick",
                               CASE c.ret = "raise" -> "500"
                                 [] c.ret = "None" -> "error"
                                 [] OTHER -> "200", {})

\* A slug no post has
MissingSlug == <<"note", "-", "0a1b2c3d">>

RequestSlugs == {voice_posts[i].slug : i \in DOMAIN voice_posts} \cup {MissingSlug}

RequestIds == 1..MaxUploads

\* The privacy check of view_post, get_post and increment_play
PrivacyDenies(post, who) ==
    post.privacy_level = "private" /\ (who = Anonymous \/ who # post.user_id)

CountsBelowCap(post_id) ==
    \A a \in DOMAIN post_analytics :
        post_analytics[a].post_id = post_id =>
            /\ post_analytics[a].view_count < MaxCount
            /\ post_analytics[a].play_count < MaxCount

\* view_post up to its answer: id is the post whose view count it raises
view_post_answer(who, sl) ==
    LET found == get_by_slug(voice_posts, sl)
    IN  CASE found.kind = "None" -> Status("404")
          [] found.kind = "TypeError" -> Status("500")
          [] OTHER ->
              IF PrivacyDenies(voice_posts[found.id], who) THEN Status("404")
              ELSE IF "get_tags" \in VoicePostMethods
              THEN [status |-> "200", shown |-> {found.id}, id |-> found.id]
              ELSE [status |-> "500", shown |-> {}, id |-> found.id]

\* A view_post that counts the view as soon as the slug has a row, before the
\* post is loaded and the privacy gate is asked
view_post_counts_first(who, sl) ==
    LET a == view_post_answer(who, sl)
        rows == RowsBySlug(voice_posts, sl)
    IN  IF rows = {} THEN Answer("view_post", a)
        ELSE \E i \in rows :
             /\ CountsBelowCap(i)
             /\ post_analytics' = increment_view_count(post_analytics, i)
             /\ Respond("view_post", a.status, a.shown)
             /\ UNCHANGED <<voice_posts, nextPostId, nextAnalyticsId, files, uploads>>

\* view_post
view_post(who, sl) ==
    LET a == view_post_answer(who, sl)
    IN  IF a.id = 0 THEN Answer("view_post", a)
        ELSE /\ CountsBelowCap(a.id)
             /\ post_analytics' = increment_view_count(post_analytics, a.id)
             /\ Respond("view_post", a.status, a.shown)
             /\ UNCHANGED <<voice_posts, nextPostId, nextAnalyticsId, files, uploads>>

\* get_post of the API
get_post_answer(who, sl) ==
    LET found == get_by_slug(voice_posts, sl)
    IN  CASE found.kind = "None" -> Status("404")
          [] found.kind = "TypeError" -> Status("500")
          [] OTHER ->
              IF PrivacyDenies(voice_posts[found.id], who) THEN Status("404")
              ELSE [status |-> "200", shown |-> {found.id}, id |-> 0]

get_post(who, sl) == Answer("get_post", get_post_answer(who, sl))

\* increment_play up to its answer: id is the post whose play count it raises
increment_play_answer(who, sl) ==
    LET found == get_by_slug(voice_posts, sl)
    IN  CASE found.kind = "None" -> Status("error")
          [] found.kind = "TypeError" -> Status("500")
          [] OTHER ->
              IF PrivacyDenies(voice_posts[found.id], who) THEN Status("error")
              ELSE [status |-> "200", shown |-> {}, id |-> found.id]

\* increment_play
increment_play(who, sl) ==
    LET a == increment_play_answer(who, sl)
    IN  IF a.id = 0 THEN Answer("increment_play", a)
        ELSE /\ CountsBelowCap(a.id)
             /\ post_analytics' = increment_play_count(post_analytics, a.id)
             /\ Respond("increment_play", a.status, a.shown)
             /\ UNCHANGED <<voice_posts, nextPostId, nextAnalyticsId, files, uploads>>

\* The lookup edit_post, delete_post and process_post start with: the
\* answer that ends the request, or "go" with the post's id
OwnerLookup(who, sl) ==
    LET found == get_by_slug(voice_posts, sl)
    IN  IF who = Anonymous THEN Status("302")
        ELSE IF found.kind = "TypeError" THEN Status("500")
        ELSE IF found.kind = "None" THEN Status("404")
        ELSE IF voice_posts[found.id].user_id # who THEN Status("404")
        ELSE [status |-> "go", shown |-> {}, id |-> found.id]

HeaderUploads == {"none", "image", "not_an_image"}

\* The file name edit_post gives an uploaded header image
HeaderFile(hex) == <<"header_", hex, "_", "memo", ".", "png">>

\* edit_post, POST.  The handler reads post.header_image wherever it gets to,
\* and ends with post.set_tags (or, without a title, with post.get_tags).
edit_post(who, sl, In) ==
    LET look == OwnerLookup(who, sl)
    IN  IF look.status # "go" THEN Answer("edit_post", look)
        ELSE \E form_title \in In.titles, summary \in In.summaries,
                form_privacy \in In.privacy, is_published \in In.is_published,
                header \in HeaderUploads, remove \in BOOLEAN, hex \in HexSuffixes :
            LET privacy_level ==
                    IF form_privacy \notin PrivacyLevels THEN "public" ELSE form_privacy
                has_attr == "header_image" \in VoicePostInitParams
                old == voice_posts[look.id].header_image
                saved == IF header = "image" THEN files \cup {HeaderFile(hex)} ELSE files
                removed == IF has_attr /\ (header = "image" \/ remove) /\ old # NullPath
                           THEN saved \ {old} ELSE saved
                final_header_image ==
                    IF header = "image" THEN HeaderFile(hex)
                    ELSE IF remove THEN <<>> ELSE old
                kwargs == [title |-> form_title, summary |-> summary,
                           privacy_level |-> privacy_level,
                           is_published |-> is_published,
                           header_image |-> final_header_image]
                updates == has_attr /\ form_title # <<>>
                ends == IF form_title # <<>> THEN "set_tags" ELSE "get_tags"
            IN  /\ updates => voice_posts[look.id].updated_at < MaxCount
                /\ Respond("edit_post",
                           IF ~has_attr \/ ends \notin VoicePostMethods THEN "500"
                           ELSE IF form_title # <<>> THEN "302" ELSE "200", {})
                /\ files' = removed
                /\ voice_posts' =
                       IF updates THEN update(voice_posts, look.id, kwargs)
                       ELSE voice_posts
                /\ UNCHANGED <<post_analytics, nextPostId, nextAnalyticsId, uploads>>

\* VoicePost.delete
delete(db, id) ==
    [db EXCEPT !.files = @ \ {db.posts[id].audio_filename},
               !.posts = DeletePostRow(@, id),
               !.analytics = CascadeAnalytics(@, id)]

\* VoicePost.delete when the DELETE statement raises (the database is locked,
\* the disk fails): os.remove has run, get_db rolls back and re-raises
delete_db_error(db, id) ==
    [db EXCEPT !.files = @ \ {db.posts[id].audio_filename}]

\* delete_post
delete_post(who, sl) ==
    LET look == OwnerLookup(who, sl)
    IN  IF look.status # "go" THEN Answer("delete_post", look)
        ELSE /\ StoreBecomes(delete(TheStore, look.id))
             /\ Respond("delete_post", "302", {})
             /\ UNCHANGED uploads

\* A value that Python takes for true: neither None nor empty
Truthy(x) == x # NullPath /\ x # <<>>

\* The updates a sequence of update calls makes to the row of post id
RECURSIVE ApplyUpdates(_, _, _)
ApplyUpdates(posts, id, updates) ==
    IF updates = <<>> THEN posts
    ELSE ApplyUpdates(update(posts, id, Head(updates)), id, Tail(updates))

\* process_post after its lookups, on a post object: the update calls it
\* makes when process_audio_complete returned proc
process_post_updates(post, proc) ==
    LET given == {f \in {"transcript", "summary"} : Truthy(proc[f])}
    IN  IF proc.error # NULL \/ given = {} THEN <<>>
        ELSE <<[f \in given |-> proc[f]]>>

\* process_post
process_post(who, sl, In) ==
    LET look == OwnerLookup(who, sl)
    IN  IF look.status # "go" THEN Answer("process_post", look)
        ELSE IF voice_posts[look.id].audio_filename \notin files
        THEN Answer("process_post", Status("error"))
        ELSE \E proc \in In.process :
            IF proc.error # NULL THEN Answer("process_post", Status("error"))
            ELSE /\ voice_posts' =
                        ApplyUpdates(voice_posts, look.id,
                                     process_post_updates(voice_posts[look.id], proc))
                 /\ voice_posts[look.id].updated_at < MaxCount
                 /\ Respond("process_post", "200", {look.id})
                 /\ UNCHANGED <<post_analytics, nextPostId, nextAnalyticsId, files, uploads>>

\* process_post_background up to the call of process_audio_complete
process_post_background_lookup(who, id) ==
    LET found == get_by_id(voice_posts, id)
    IN  IF who = Anonymous THEN Status("302")
        ELSE IF found.kind = "None" THEN Status("404")
        ELSE IF voice_posts[id].user_id # who THEN Status("403")
        ELSE IF voice_posts[id].audio_filename \notin files THEN Status("500")
        ELSE [status |-> "go", shown |-> {}, id |-> id]

\* A process_post_background that stores what process_audio_complete returned
\* without looking at its error
process_post_background_updates_unchecked(post, proc) ==
    <<[transcript |-> proc.transcript, summary |-> proc.summary]>>
        \o (IF post.title = splitext(post.audio_filename)[1]
            THEN <<[title |-> proc.title]>> ELSE <<>>)

\* process_post_background after its lookups, on a post object: the update
\* calls it makes when process_audio_complete returned proc
process_post_background_updates(post, proc) ==
    IF proc.error # NULL THEN <<>>
    ELSE <<[transcript |-> proc.transcript, summary |-> proc.summary]>>
            \o (IF post.title = splitext(post.audio_filename)[1]
                THEN <<[title |-> proc.title]>> ELSE <<>>)

\* process_post_background
process_post_background(who, id, In) ==
    LET look == process_post_background_lookup(who, id)
    IN  IF look.status # "go" THEN Answer("process_post_background", look)
        ELSE \E proc \in In.process :
            IF proc.error # NULL
            THEN Answer("process_post_background", Status("500"))
            ELSE /\ voice_posts[id].updated_at + 1 < MaxCount
                 /\ voice_posts' =
                        ApplyUpdates(voice_posts, id,
                                     process_post_background_updates(voice_posts[id], proc))
                 /\ Respond("process_post_background", "200", {})
                 /\ UNCHANGED <<post_analytics, nextPostId, nextAnalyticsId, files,
                                uploads>>

\* get_post_slug
get_post_slug_answer(who, id) ==
    LET found == get_by_id(voice_posts, id)
    IN  IF who = Anonymous THEN Status("302")
        ELSE IF found.kind = "None" THEN Status("404")
        ELSE IF voice_posts[id].user_id # who THEN Status("404")
        ELSE Status("200")

get_post_slug(who, id) == Answer("get_post_slug", get_post_slug_answer(who, id))

ConvertedSuffix == <<"_converted", ".", "mp3">>

EndsWith(f, suffix) ==
    Len(f) >= Len(suffix) /\ SubSeq(f, Len(f) - Len(suffix) + 1, Len(f)) = suffix

\* The path serve_audio finds for a file name, NullPath when it finds none
ServedPath(filename, dir) ==
    IF EndsWith(filename, ConvertedSuffix) /\ (<<"converted/">> \o filename) \in dir
    THEN <<"converted/">> \o filename
    ELSE IF filename \in dir THEN filename
    ELSE IF ~EndsWith(filename, ConvertedSuffix) /\ ConvertedPath(filename) \in dir
    THEN ConvertedPath(filename)
    ELSE NullPath

\* The posts a file of the upload tree belongs to
PostsOfFile(posts, path) ==
    {i \in DOMAIN posts :
        posts[i].audio_filename = path \/ posts[i].converted_mp3_path = path}

\* The names a request may ask serve_audio for
RequestFiles ==
    {IF Head(f) = "converted/" THEN Tail(f) ELSE f : f \in files}
        \cup {<<"note", ".", "mp3">>}

\* serve_audio: abort(404) is raised inside the try block, whose handler
\* answers every Exception with abort(500).  shown: the posts whose audio the
\* body holds.
serve_audio_answer(who, filename) ==
    LET path == ServedPath(filename, files)
    IN  IF path = NullPath THEN Status("500")
        ELSE [status |-> "200", shown |-> PostsOfFile(voice_posts, path), id |-> 0]

serve_audio(who, filename) == Answer("serve_audio", serve_audio_answer(who, filename))

\* list_posts of the API (every post fits its first page); main.index and
\* main.discover list the same rows
list_posts_answer(who) ==
    IF ListingRaises(PublicRows(voice_posts)) THEN Status("500")
    ELSE [status |-> "200", shown |-> PublicRows(voice_posts), id |-> 0]

list_posts(who) == Answer("list_posts", list_posts_answer(who))

\* user_posts of the API, for the user with id user_id
user_posts_answer(who, user_id) ==
    LET rows == UserRows(voice_posts, user_id, FALSE)
    IN  IF user_id \notin Users THEN Status("404")
        ELSE IF ListingRaises(rows) THEN Status("500")
        ELSE [status |-> "200", shown |-> {i \in rows : voice_posts[i].is_published},
              id |-> 0]

user_posts(who, user_id) == Answer("user_posts", user_posts_answer(who, user_id))

-----------------------------------------------------------------------------
(* The requests of one server, one at a time *)

NoUpload == [present |-> FALSE, filename |-> <<>>, size |-> 0]

AudioFile(stem, ext, size) ==
    [present |-> TRUE, filename |-> <<stem, ".", ext>>, size |-> size]

\* The inputs of the requests of Spec
RequestInputs ==
    [titles |-> {<<"Hello">>},
     summaries |-> {<<"summary">>},
     is_published |-> BOOLEAN,
     privacy |-> PrivacyLevels \cup {"secret"},
     has_file |-> BOOLEAN,
     files |-> {NoUpload, AudioFile("memo", "exe", 1), AudioFile("memo", "wav", 1),
                AudioFile("memo", "wav", MAX_FILE_SIZE + 1)},
     save |-> {"saved"},
     hex |-> HexSuffixes,
     durations |-> {"10.0"},
     auto_process |-> {NoProcessing},
     process |-> ProcessResults,
     conv |-> {"ok"},
     tags |-> {{}, {1}}]

\* The threads that serve requests at the same time
Threads == {1, 2}

NoThread == 0

\* The most model-layer calls the threads make in a run
MaxCalls == 4

NoLocal == [op |-> "none"]

NoCall == [op |-> "none"]

NoCalls ==
    [n |-> 0, views |-> [p \in 1..MaxCalls |-> 0], plays |-> [p \in 1..MaxCalls |-> 0]]

InitStore ==
    /\ voice_posts = EmptyTable
    /\ post_analytics = EmptyTable
    /\ nextPostId = 1
    /\ nextAnalyticsId = 1
    /\ files = {}
    /\ uploads = 0
    /\ resp = [op |-> "none", status |-> "none", shown |-> {}]
    /\ pc = [t \in Threads |-> "idle"]
    /\ loc = [t \in Threads |-> NoLocal]
    /\ txn = NoThread
    /\ calls = NoCalls
    /\ slug = <<>>
    /\ upl = NoCall
    /\ users = EmptyTable
    /\ tags = EmptyTable

Init ==
    /\ InitStore
    /\ title = <<>>

\* A request leaves the variables of the other specifications alone
Stays == UNCHANGED <<threadVars, pureVars, authVars>>

\* The requesters that upload
Uploaders == {Anonymous, 1}

CreatePost ==
    /\ \E who \in Uploaders : create_post(who, RequestInputs)
    /\ Stays

UploadQuick ==
    /\ \E who \in Uploaders : upload_quick(who, RequestInputs)
    /\ Stays

ViewPost ==
    /\ \E who \in Requesters, sl \in RequestSlugs : view_post(who, sl)
    /\ Stays

GetPost ==
    /\ \E who \in Requesters, sl \in RequestSlugs : get_post(who, sl)
    /\ Stays

IncrementPlay ==
    /\ \E who \in Requesters, sl \in RequestSlugs : increment_play(who, sl)
    /\ Stays

EditPost ==
    /\ \E who \in Requesters, sl \in RequestSlugs : edit_post(who, sl, RequestInputs)
    /\ Stays

DeletePost ==
    /\ \E who \in Requesters, sl \in RequestSlugs : delete_post(who, sl)
    /\ Stays

ProcessPost ==
    /\ \E who \in Requesters, sl \in RequestSlugs : process_post(who, sl, RequestInputs)
    /\ Stays

ProcessPostBackground ==
    /\ \E who \in Requesters, id \in RequestIds :
           process_post_background(who, id, RequestInputs)
    /\ Stays

GetPostSlug ==
    /\ \E who \in Requesters, id \in RequestIds : get_post_slug(who, id)
    /\ Stays

ServeAudio ==
    /\ \E who \in Requesters, filename \in RequestFiles : serve_audio(who, filename)
    /\ Stays

ListPosts ==
    /\ \E who \in Requesters : list_posts(who)
    /\ Stays

UserPosts ==
    /\ \E who \in Requesters, user_id \in Users \cup {3} : user_posts(who, user_id)
    /\ Stays

Next ==
    \/ CreatePost
    \/ UploadQuick
    \/ ViewPost
    \/ GetPost
    \/ IncrementPlay
    \/ EditPost
    \/ DeletePost
    \/ ProcessPost
    \/ ProcessPostBackground
    \/ GetPostSlug
    \/ ServeAudio
    \/ ListPosts
    \/ UserPosts

Spec == Init /\ [][Next]_vars

-----------------------------------------------------------------------------
(* The privacy gate and ownership, under Spec *)

\* C1: for every private post and every requester who is unauthenticated or
\* is not the post's owner, view_post and the API's get_post answer 404 and
\* increment_play answers with an error, and none of them returns the post's
\* content or counts the request
C1_PrivatePostHidden ==
    \A i \in DOMAIN voice_posts, who \in Requesters :
        (voice_posts[i].privacy_level = "private" /\ who # voice_posts[i].user_id) =>
            LET sl == voice_posts[i].slug
            IN  /\ view_post_answer(who, sl).status = "404"
                /\ view_post_answer(who, sl).shown = {}
                /\ get_post_answer(who, sl).status = "404"
                /\ get_post_answer(who, sl).shown = {}
                /\ increment_play_answer(who, sl).status \in {"error", "500"}
                /\ increment_play_answer(who, sl).id = 0

\* C2: serve_audio returns a file of a private post (its audio file or the
\* converted MP3) to the post's owner only
C2_PrivateAudioOwnerOnly ==
    \A i \in DOMAIN voice_posts, who \in Requesters, filename \in RequestFiles :
        (voice_posts[i].privacy_level = "private" /\ who # voice_posts[i].user_id) =>
            i \notin serve_audio_answer(who, filename).shown

\* C3: for every post and every authenticated user other than its owner,
\* edit_post, delete_post, process_post, process_post_background and
\* get_post_slug are answered 404 or 403 and leave the post rows and the files
\* as they were
C3_NonOwnerRejected ==
    [][\A i \in DOMAIN voice_posts : \A who \in Users \ {voice_posts[i].user_id} :
          LET sl == voice_posts[i].slug
          IN  (\/ edit_post(who, sl, RequestInputs)
               \/ delete_post(who, sl)
               \/ process_post(who, sl, RequestInputs)
               \/ process_post_background(who, i, RequestInputs)
               \/ get_post_slug(who, i))
              => /\ resp'.status \in {"404", "403"}
                 /\ voice_posts' = voice_posts
                 /\ files' = files]_vars

\* C4: an unlisted post is in no public listing (get_public_posts, get_by_user
\* without include_private, list_posts and user_posts of the API), and
\* view_post and get_post return the content of a public or unlisted post to
\* every requester
C4_UnlistedDirectOnly ==
    /\ \A i \in DOMAIN voice_posts, who \in Requesters :
          voice_posts[i].privacy_level = "unlisted" =>
              /\ i \notin PublicRows(voice_posts)
              /\ i \notin UserRows(voice_posts, voice_posts[i].user_id, FALSE)
              /\ i \notin list_posts_answer(who).shown
              /\ i \notin user_posts_answer(who, voice_posts[i].user_id).shown
    /\ \A i \in DOMAIN voice_posts, who \in Requesters :
          voice_posts[i].privacy_level \in {"public", "unlisted"} =>
              /\ view_post_answer(who, voice_posts[i].slug).status = "200"
              /\ view_post_answer(who, voice_posts[i].slug).shown = {i}
              /\ get_post_answer(who, voice_posts[i].slug).status = "200"
              /\ get_post_answer(who, voice_posts[i].slug).shown = {i}

\* An upload of a valid audio file with a privacy_level that is none of the
\* three
OtherPrivacyUpload ==
    [RequestInputs EXCEPT !.privacy = {"secret"}, !.has_file = {TRUE},
                          !.files = {AudioFile("memo", "wav", 1)}]

\* No slug a new post of this title can get is taken
SlugsFree(t) ==
    \A hex \in HexSuffixes :
        RowsBySlug(voice_posts, _generate_unique_slug(t, hex)) = {}

\* C5: every stored post has one of the three privacy levels, and a
\* create_post or upload_quick request that carries any other privacy_level
\* stores its post with privacy_level public
C5_PrivacyNormalized ==
    [][/\ \A i \in DOMAIN voice_posts' :
             voice_posts'[i].privacy_level \in PrivacyLevels
       /\ \A who \in Users, t \in OtherPrivacyUpload.titles :
             (/\ SlugsFree(t)
              /\ \/ create_post(who, [OtherPrivacyUpload EXCEPT !.titles = {t}])
                 \/ upload_quick(who, [OtherPrivacyUpload EXCEPT !.titles = {t}]))
             => \E i \in DOMAIN voice_posts' \ DOMAIN voice_posts :
                    voice_posts'[i].privacy_level = "public"]_vars

\* C13: after a delete_post request by the owner the post's audio file and
\* header image are not on disk and the post row is gone, whether or not the
\* audio file was there before, and get_by_slug, view_post and get_post for
\* its slug then find no post
C13_DeleteRemovesPost ==
    [][\A i \in DOMAIN voice_posts : \A sl \in {voice_posts[i].slug} :
          delete_post(voice_posts[i].user_id, sl) =>
              /\ i \notin DOMAIN voice_posts'
              /\ voice_posts[i].audio_filename \notin files'
              /\ voice_posts[i].header_image \notin files'
              /\ get_by_slug(voice_posts', sl).kind = "None"
              /\ \A who \in Requesters :
                    /\ view_post_answer(who, sl)'.status = "404"
                    /\ get_post_answer(who, sl)'.status = "404"]_vars

\* The form of an edit of post i that changes nothing but privacy_level,
\* which it sets to private
PrivacyOnlyEdit(i) ==
    [RequestInputs EXCEPT !.titles = {voice_posts[i].title},
                          !.summaries = {voice_posts[i].summary},
                          !.is_published = {voice_posts[i].is_published},
                          !.privacy = {"private"}]

\* C15: an edit_post request by the owner that changes only privacy_level, to
\* private, leaves title, transcript, summary and is_published as they were,
\* and once it is answered view_post and get_post answer 404 to every other
\* requester
C15_EditToPrivateHides ==
    [][\A i \in DOMAIN voice_posts : \A sl \in {voice_posts[i].slug} :
          edit_post(voice_posts[i].user_id, sl, PrivacyOnlyEdit(i)) =>
              /\ i \in DOMAIN voice_posts'
              /\ voice_posts'[i].privacy_level = "private"
              /\ voice_posts'[i].title = voice_posts[i].title
              /\ voice_posts'[i].transcript = voice_posts[i].transcript
              /\ voice_posts'[i].summary = voice_posts[i].summary
              /\ voice_posts'[i].is_published = voice_posts[i].is_published
              /\ \A who \in Requesters \ {voice_posts[i].user_id} :
                    /\ view_post_answer(who, sl)'.status = "404"
                    /\ get_post_answer(who, sl)'.status = "404"]_vars

\* An edit of the owner that gives the post another title
OwnerTitleEdit == [RequestInputs EXCEPT !.titles = {<<"Note">>}]

\* C25: once an edit_post request of the owner with a title is answered the
\* post has that title, and no process_post_background or process_post
\* request changes the title the owner gave the post
C25_OwnerTitleKept ==
    [][/\ \A i \in DOMAIN voice_posts : \A sl \in {voice_posts[i].slug} :
             edit_post(voice_posts[i].user_id, sl, OwnerTitleEdit) =>
                 /\ i \in DOMAIN voice_posts'
                 /\ voice_posts'[i].title = <<"Note">>
       /\ \A i \in DOMAIN voice_posts \cap DOMAIN voice_posts' :
             resp'.op \in {"process_post_background", "process_post"} =>
                 voice_posts'[i].title = voice_posts[i].title]_vars

\* Uploads, and views and plays of the posts
NextGate ==
    \/ CreatePost
    \/ UploadQuick
    \/ ViewPost
    \/ IncrementPlay

SpecGate == Init /\ [][NextGate]_vars

\* The slug has no post, or the privacy gate keeps the requester from its post
Denied(who, sl) ==
    \/ RowsBySlug(voice_posts, sl) = {}
    \/ \E i \in RowsBySlug(voice_posts, sl) : PrivacyDenies(voice_posts[i], who)

-----------------------------------------------------------------------------
(* Model-layer calls of requests served at the same time, each on its own   *)
(* connection to the one SQLite database                                    *)

\* A database without a write lock
NoWriteLock(t) == TRUE

\* SQLite admits one write transaction at a time: the first writing statement
\* of a connection (sqlite3 begins the transaction before it) waits while
\* another connection holds the write lock, which commit and rollback release
CanWrite(t) == txn \in {NoThread, t}

DbTitles == {<<"Hello">>}

\* The arguments of the VoicePost.create calls: an MP3, which create does not
\* convert
CreateArgs(t) ==
    [user_id |-> 1, title |-> t, audio_filename |-> <<"memo", ".", "mp3">>,
     transcript |-> NullPath, summary |-> NullPath, duration_seconds |-> "10.0",
     privacy_level |-> "public"]

StartCall(t, local, at) ==
    /\ pc[t] = "idle"
    /\ calls.n < MaxCalls
    /\ calls' = [calls EXCEPT !.n = @ + 1]
    /\ loc' = [loc EXCEPT ![t] = local]
    /\ pc' = [pc EXCEPT ![t] = at]
    /\ UNCHANGED <<dbVars, txn>>

EndCall(t) ==
    /\ loc' = [loc EXCEPT ![t] = NoLocal]
    /\ pc' = [pc EXCEPT ![t] = "idle"]

\* The other specifications' variables
NoRequest == UNCHANGED <<files, uploads, resp, pureVars, authVars>>

\* VoicePost.create: _generate_unique_slug
CreateSlug(t) ==
    /\ \E ti \in DbTitles, hex \in HexSuffixes :
          StartCall(t, [op |-> "create", args |-> CreateArgs(ti),
                        slug |-> _generate_unique_slug(ti, hex)], "insert")
    /\ NoRequest

\* A create whose connection commits each statement by itself: the INSERT
\* into voice_posts is visible before the one into post_analytics is made
CreateInsertAutocommit(t) ==
    /\ pc[t] = "insert"
    /\ CanWrite(t)
    /\ LET row == NewPostRow(nextPostId, loc[t].args, loc[t].slug, NullPath)
       IN  IF InsertPostAllowed(voice_posts, row)
           THEN /\ loc' = [loc EXCEPT ![t] =
                              [op |-> "create", slug |-> loc[t].slug,
                               posts |-> (nextPostId :> row) @@ voice_posts,
                               analytics |-> (nextAnalyticsId :> NewAnalyticsRow(nextPostId))
                                                 @@ post_analytics]]
                /\ pc' = [pc EXCEPT ![t] = "commit"]
                /\ txn' = t
                /\ voice_posts' = (nextPostId :> row) @@ voice_posts
           ELSE /\ EndCall(t)
                /\ UNCHANGED <<txn, voice_posts>>
    /\ UNCHANGED <<post_analytics, nextPostId, nextAnalyticsId, calls>>
    /\ NoRequest

\* VoicePost.create: the two INSERTs and the SELECT that verifies them, on
\* the connection of create.  An IntegrityError is rolled back and raised.
CreateInsert(t) ==
    /\ pc[t] = "insert"
    /\ CanWrite(t)
    /\ LET row == NewPostRow(nextPostId, loc[t].args, loc[t].slug, NullPath)
       IN  IF InsertPostAllowed(voice_posts, row)
           THEN /\ loc' = [loc EXCEPT ![t] =
                              [op |-> "create", slug |-> loc[t].slug,
                               posts |-> (nextPostId :> row) @@ voice_posts,
                               analytics |-> (nextAnalyticsId :> NewAnalyticsRow(nextPostId))
                                                 @@ post_analytics]]
                /\ pc' = [pc EXCEPT ![t] = "commit"]
                /\ txn' = t
           ELSE /\ EndCall(t)
                /\ UNCHANGED txn
    /\ UNCHANGED <<dbVars, calls>>
    /\ NoRequest

\* VoicePost.create: conn.commit(); the get_by_id that follows reads only
CreateCommit(t) ==
    /\ pc[t] = "commit"
    /\ voice_posts' = loc[t].posts
    /\ post_analytics' = loc[t].analytics
    /\ nextPostId' = nextPostId + 1
    /\ nextAnalyticsId' = nextAnalyticsId + 1
    /\ txn' = NoThread
    /\ EndCall(t)
    /\ UNCHANGED calls
    /\ NoRequest

\* increment_view_count or increment_play_count of an object of post p:
\* get_db opens the connection
IncrementConnect(t) ==
    /\ \E p \in DOMAIN voice_posts, op \in {"increment_view_count", "increment_play_count"} :
          StartCall(t, [op |-> op, post |-> p], "connected")
    /\ NoRequest

\* conn.execute of the UPDATE
IncrementUpdate(t) ==
    /\ pc[t] = "connected"
    /\ CanWrite(t)
    /\ loc' = [loc EXCEPT ![t] =
                  [op |-> loc[t].op, post |-> loc[t].post,
                   analytics |->
                       IF loc[t].op = "increment_view_count"
                       THEN increment_view_count(post_analytics, loc[t].post)
                       ELSE increment_play_count(post_analytics, loc[t].post)]]
    /\ pc' = [pc EXCEPT ![t] = "updated"]
    /\ txn' = t
    /\ UNCHANGED <<dbVars, calls>>
    /\ NoRequest

\* get_db leaves the with block: conn.commit(), and the call returns
IncrementCommit(t) ==
    /\ pc[t] = "updated"
    /\ post_analytics' = loc[t].analytics
    /\ txn' = NoThread
    /\ calls' = IF loc[t].op = "increment_view_count"
                THEN [calls EXCEPT !.views[loc[t].post] = @ + 1]
                ELSE [calls EXCEPT !.plays[loc[t].post] = @ + 1]
    /\ EndCall(t)
    /\ UNCHANGED <<voice_posts, nextPostId, nextAnalyticsId>>
    /\ NoRequest

NextDb ==
    \/ \E t \in Threads : CreateSlug(t)
    \/ \E t \in Threads : CreateInsert(t)
    \/ \E t \in Threads : CreateCommit(t)
    \/ \E t \in Threads : IncrementConnect(t)
    \/ \E t \in Threads : IncrementUpdate(t)
    \/ \E t \in Threads : IncrementCommit(t)

SpecDb == Init /\ [][NextDb]_vars

\* C11: whatever VoicePost.create calls have returned, raised or are under
\* way, a voice_posts row and its post_analytics row exist together or not at
\* all: every post has exactly one analytics row, every analytics row has its
\* post, and a row that appears starts with view_count = 0 and play_count = 0
C11_PostAndAnalyticsTogether ==
    [][/\ \A i \in DOMAIN voice_posts' :
             Cardinality(AnalyticsOf(post_analytics', i)) = 1
       /\ \A a \in DOMAIN post_analytics' :
             /\ post_analytics'[a].post_id \in DOMAIN voice_posts'
             /\ a \notin DOMAIN post_analytics =>
                   /\ post_analytics'[a].view_count = 0
                   /\ post_analytics'[a].play_count = 0]_vars

\* One create has committed its two rows, another holds its two uncommitted
\* INSERTs, and a third call was made (an increment, or a create that raised)
C11_Witness ==
    /\ DOMAIN voice_posts # {}
    /\ \E t \in Threads : pc[t] = "commit"
    /\ calls.n >= 3

\* C6: view_count and play_count of a post never decrease, and whatever the
\* interleaving, each equals the number of increment_view_count and
\* increment_play_count calls on the post that have returned: no increment is
\* lost and none counts twice
C6_IncrementsExact ==
    [][\A a \in DOMAIN post_analytics' :
          /\ post_analytics'[a].view_count = calls'.views[post_analytics'[a].post_id]
          /\ post_analytics'[a].play_count = calls'.plays[post_analytics'[a].post_id]
          /\ a \in DOMAIN post_analytics =>
                /\ post_analytics'[a].view_count >= post_analytics[a].view_count
                /\ post_analytics'[a].play_count >= post_analytics[a].play_count]_vars

\* Increments of one post overlapped: one counted, and now one call holds its
\* uncommitted UPDATE while another has opened its connection
C6_Witness ==
    \E t, u \in Threads, a \in DOMAIN post_analytics :
        /\ pc[t] = "updated"
        /\ pc[u] = "connected"
        /\ loc[t].post = post_analytics[a].post_id
        /\ loc[u].post = post_analytics[a].post_id
        /\ post_analytics[a].view_count + post_analytics[a].play_count >= 1

\* C7: no two rows of voice_posts have the same slug, also when the same
\* title is submitted twice or by two requests at the same time
C7_SlugsUnique ==
    \A i, j \in DOMAIN voice_posts :
        i # j => voice_posts[i].slug # voice_posts[j].slug

\* Two posts of the same title are stored, and a third create of that title
\* is about to insert a slug that is taken
C7_Witness ==
    /\ \E i, j \in DOMAIN voice_posts :
          i # j /\ voice_posts[i].title = voice_posts[j].title
    /\ \E t \in Threads :
          pc[t] = "insert" /\ RowsBySlug(voice_posts, loc[t].slug) # {}

-----------------------------------------------------------------------------
(* _generate_unique_slug on its own *)

\* The longest title, in tokens
MaxTitleLen == 2

TitleTokens == {"Hello", "note", " ", "-", "_", "!", "é"}

RECURSIVE SeqsUpTo(_, _)
SeqsUpTo(S, n) ==
    IF n = 0 THEN {<<>>}
    ELSE SeqsUpTo(S, n - 1)
             \cup {Append(q, x) : q \in {r \in SeqsUpTo(S, n - 1) : Len(r) = n - 1}, x \in S}

SlugTitles == SeqsUpTo(TitleTokens, MaxTitleLen) \ {<<>>}

InitSlug ==
    /\ InitStore
    /\ title \in SlugTitles

GenerateSlug ==
    /\ slug = <<>>
    /\ \E hex \in HexSuffixes : slug' = _generate_unique_slug(title, hex)
    /\ UNCHANGED <<dbVars, files, uploads, resp, threadVars, title, upl, authVars>>

SpecSlug == InitSlug /\ [][GenerateSlug]_vars

\* C8: for any title, the slug _generate_unique_slug returns matches
\* ^[a-z0-9-]+-[0-9a-f]{8}$
C8_SlugMatchesPattern == slug # <<>> => MatchesSlugPattern(slug)

-----------------------------------------------------------------------------
(* save_audio_file on its own *)

UploadFiles ==
    {NoUpload,
     [present |-> TRUE, filename |-> <<>>, size |-> 1],
     [present |-> TRUE, filename |-> <<"memo">>, size |-> 1],
     AudioFile("memo", "exe", 1),
     AudioFile("memo", "wav", 1),
     AudioFile("memo", "WAV", 1),
     AudioFile("note", "mp3", MAX_FILE_SIZE),
     AudioFile("note", "mp3", MAX_FILE_SIZE + 1)}

\* One call of save_audio_file
SaveAudioFile ==
    /\ uploads < MaxUploads
    /\ \E file \in UploadFiles, hex \in HexSuffixes, outcome \in SaveOutcomes :
          LET saved == save_audio_file(file, files, hex, outcome)
          IN  /\ upl' = [op |-> "save_audio_file", file |-> file, before |-> files,
                         filename |-> saved.filename, error |-> saved.error]
              /\ files' = saved.dir
              /\ uploads' = IF saved.error = NULL THEN uploads + 1 ELSE uploads
    /\ UNCHANGED <<dbVars, resp, threadVars, title, slug, authVars>>

SpecUpload == Init /\ [][SaveAudioFile]_vars

\* The uploads the validation of save_audio_file is to reject
Rejected(file) ==
    \/ ~file.present
    \/ file.filename = <<>>
    \/ ~allowed_audio_file(file.filename)
    \/ file.size > MAX_FILE_SIZE

\* C9: an upload that is no file, has an empty filename, an extension outside
\* the allowed set or more than 50 MiB gets (None, error), and the upload
\* directory holds the same files after the call as before
C9_RejectedWritesNothing ==
    (upl.op = "save_audio_file" /\ Rejected(upl.file)) =>
        /\ upl.filename = NullPath
        /\ upl.error # NULL
        /\ files = upl.before

\* An upload was rejected when the directory already held a file
C9_Witness ==
    /\ upl.op = "save_audio_file"
    /\ Rejected(upl.file)
    /\ upl.file.present
    /\ upl.file.filename # <<>>
    /\ upl.before # {}

\* C10: the filename save_audio_file stores an accepted upload under is not
\* the name of a file already in the upload directory
C10_StoredNameIsNew ==
    (upl.op = "save_audio_file" /\ upl.error = NULL) => upl.filename \notin upl.before

-----------------------------------------------------------------------------
(* The methods of VoicePost called one after another, update and delete on  *)
(* an object that holds the values of an existing row                       *)

\* The keyword arguments of the update calls
UpdateKwargs ==
    {[title |-> <<"Note">>],
     [privacy_level |-> "private"],
     [is_published |-> FALSE],
     [transcript |-> Text(3), summary |-> <<"summary">>],
     [header_image |-> <<"header", ".", "png">>],
     [title |-> <<"Note">>, header_image |-> <<"header", ".", "png">>],
     [slug |-> <<"note", "-", "0a1b2c3d">>, user_id |-> 2]}

ModelCall ==
    /\ calls.n < MaxCalls
    /\ calls' = [calls EXCEPT !.n = @ + 1]
    /\ UNCHANGED <<uploads, pc, loc, txn, pureVars, authVars>>

\* VoicePost.create for a file that save_audio_file stored
ModelCreate ==
    /\ ModelCall
    /\ \E hex1 \in HexSuffixes, hex2 \in HexSuffixes :
          LET audio_filename == <<"memo", "_", hex1, ".", "wav">>
              args == [CreateArgs(<<"Hello">>) EXCEPT !.audio_filename = audio_filename]
              c == VoicePost_create([TheStore EXCEPT !.files = @ \cup {audio_filename}],
                                    args, hex2, "ok")
          IN  /\ StoreBecomes(c)
              /\ resp' = [op |-> "create", ret |-> c.ret, id |-> c.id]

\* post.update(**kwargs)
ModelUpdate ==
    /\ ModelCall
    /\ \E i \in DOMAIN voice_posts, kwargs \in UpdateKwargs :
          /\ voice_posts' = update(voice_posts, i, kwargs)
          /\ resp' = [op |-> "update", id |-> i, kwargs |-> kwargs,
                      before |-> voice_posts[i]]
    /\ UNCHANGED <<post_analytics, nextPostId, nextAnalyticsId, files>>

\* post.delete(); the DELETE statement succeeds or raises
ModelDelete ==
    /\ ModelCall
    /\ \E i \in DOMAIN voice_posts, raises \in BOOLEAN :
          /\ StoreBecomes(IF raises THEN delete_db_error(TheStore, i)
                          ELSE delete(TheStore, i))
          /\ resp' = [op |-> "delete", id |-> i, before |-> voice_posts[i],
                      ret |-> IF raises THEN "raise" ELSE "None"]

NextModel ==
    \/ ModelCreate
    \/ ModelUpdate
    \/ ModelDelete

SpecModel == Init /\ [][NextModel]_vars

\* C12: once VoicePost.delete has returned no post_analytics row refers to the
\* deleted post, and in every state each post_analytics row refers to a
\* voice_posts row that exists
C12_DeleteCascades ==
    /\ resp.op = "delete" => AnalyticsOf(post_analytics, resp.id) = {}
    /\ \A a \in DOMAIN post_analytics :
          post_analytics[a].post_id \in DOMAIN voice_posts

\* C27: when VoicePost.create returned None or raised, the call committed no
\* voice_posts row and no post_analytics row; when it committed a row, it
\* returned the post object of that row
C27_CreateResultAgrees ==
    resp.op = "create" =>
        /\ resp.ret \in {"None", "raise"} =>
               /\ resp.id \notin DOMAIN voice_posts
               /\ AnalyticsOf(post_analytics, resp.id) = {}
        /\ resp.id \in DOMAIN voice_posts => resp.ret = "post"

\* C29: after VoicePost.delete has deleted a post, neither its audio file nor
\* the converted MP3 that VoicePost.create wrote for it is in the upload tree
C29_DeleteRemovesEveryFile ==
    (resp.op = "delete" /\ resp.ret = "None") =>
        /\ resp.id \notin DOMAIN voice_posts
        /\ resp.before.audio_filename \notin files
        /\ resp.before.converted_mp3_path \notin files

\* C30: when the DELETE of VoicePost.delete fails and is rolled back the
\* post's audio file is still on disk, and in every state the audio file of
\* each post is on disk (VoicePost.create here is only called for a file
\* that is there)
C30_RowKeepsItsFile ==
    /\ (resp.op = "delete" /\ resp.ret = "raise") =>
           /\ resp.id \in DOMAIN voice_posts
           /\ resp.before.audio_filename \in files
    /\ \A i \in DOMAIN voice_posts : voice_posts[i].audio_filename \in files

\* C14: VoicePost.update sets each supplied field among title, transcript,
\* summary, privacy_level, is_published and header_image to the supplied
\* value, stamps updated_at, and leaves every other field, id, user_id, slug,
\* audio_filename, converted_mp3_path and duration_seconds among them, as it
\* was
C14_UpdateSetsSuppliedOnly ==
    resp.op = "update" =>
        LET row == voice_posts[resp.id]
            supplied == DOMAIN resp.kwargs
                            \cap {"title", "transcript", "summary", "privacy_level",
                                  "is_published", "header_image"}
        IN  /\ \A f \in supplied : row[f] = resp.kwargs[f]
            /\ row.updated_at = resp.before.updated_at + 1
            /\ \A f \in DOMAIN row \ (supplied \cup {"updated_at"}) :
                  row[f] = resp.before[f]

-----------------------------------------------------------------------------
(* VoicePost.update called by requests served at the same time on objects   *)
(* of one post                                                              *)

\* The store once VoicePost.create has stored one post of an MP3
OnePost ==
    VoicePost_create([posts |-> EmptyTable, analytics |-> EmptyTable,
                      nextPostId |-> 1, nextAnalyticsId |-> 1,
                      files |-> {CreateArgs(<<"Hello">>).audio_filename}],
                     CreateArgs(<<"Hello">>), "0a1b2c3d", "ok")

\* resp keeps the keyword arguments of the update calls in the order in which
\* their UPDATEs were committed
InitUpdate ==
    /\ voice_posts = OnePost.posts
    /\ post_analytics = OnePost.analytics
    /\ nextPostId = OnePost.nextPostId
    /\ nextAnalyticsId = OnePost.nextAnalyticsId
    /\ files = OnePost.files
    /\ uploads = 1
    /\ resp = [op |-> "updates", done |-> <<>>]
    /\ pc = [t \in Threads |-> "idle"]
    /\ loc = [t \in Threads |-> NoLocal]
    /\ txn = NoThread
    /\ calls = NoCalls
    /\ title = <<>>
    /\ slug = <<>>
    /\ upl = NoCall
    /\ users = EmptyTable
    /\ tags = EmptyTable

\* The keyword arguments of the concurrent update calls: those of
\* process_post_background (transcript and summary, then title) and of edits
ConcurrentKwargs ==
    {[transcript |-> Text(3), summary |-> <<"summary">>],
     [title |-> <<"Note">>],
     [title |-> <<"Quick", " ", "Voice", " ", "Note">>, privacy_level |-> "private"],
     [privacy_level |-> "unlisted"]}

\* post.update(**kwargs) on an object self loaded from the row: the fields are
\* set on the object and get_db opens the connection
UpdateCall(t) ==
    /\ \E p \in DOMAIN voice_posts, kwargs \in ConcurrentKwargs :
          StartCall(t, [op |-> "update", post |-> p, kwargs |-> kwargs,
                        self |-> UpdateRow(voice_posts[p], kwargs)], "connected")
    /\ NoRequest

\* An update that writes every column from the object it was called on
UpdateExecuteWholeRow(t) ==
    /\ pc[t] = "connected"
    /\ loc[t].op = "update"
    /\ CanWrite(t)
    /\ loc' = [loc EXCEPT ![t] =
                  [op |-> "update", post |-> loc[t].post, kwargs |-> loc[t].kwargs,
                   self |-> loc[t].self,
                   posts |-> [voice_posts EXCEPT ![loc[t].post] = loc[t].self]]]
    /\ pc' = [pc EXCEPT ![t] = "updated"]
    /\ txn' = t
    /\ UNCHANGED <<dbVars, calls>>
    /\ NoRequest

\* conn.execute of UPDATE voice_posts SET <the supplied fields> WHERE id = ?
UpdateExecute(t) ==
    /\ pc[t] = "connected"
    /\ loc[t].op = "update"
    /\ CanWrite(t)
    /\ loc' = [loc EXCEPT ![t] =
                  [op |-> "update", post |-> loc[t].post, kwargs |-> loc[t].kwargs,
                   self |-> loc[t].self,
                   posts |-> update(voice_posts, loc[t].post, loc[t].kwargs)]]
    /\ pc' = [pc EXCEPT ![t] = "updated"]
    /\ txn' = t
    /\ UNCHANGED <<dbVars, calls>>
    /\ NoRequest

\* get_db leaves the with block: conn.commit(), and update returns
UpdateCommit(t) ==
    /\ pc[t] = "updated"
    /\ loc[t].op = "update"
    /\ voice_posts' = loc[t].posts
    /\ txn' = NoThread
    /\ resp' = [resp EXCEPT !.done = Append(@, loc[t].kwargs)]
    /\ EndCall(t)
    /\ UNCHANGED <<post_analytics, nextPostId, nextAnalyticsId, calls, files, uploads,
                   pureVars, authVars>>

NextUpdate ==
    \/ \E t \in Threads : UpdateCall(t)
    \/ \E t \in Threads : UpdateExecute(t)
    \/ \E t \in Threads : UpdateCommit(t)

SpecUpdate == InitUpdate /\ [][NextUpdate]_vars

\* The value the last committed update that supplied field f supplied, and
\* the value of the row before all of them when none supplied f
LastSupplied(f, done, before) ==
    LET S == {k \in 1..Len(done) : f \in DOMAIN done[k]}
    IN  IF S = {} THEN before[f]
        ELSE done[CHOOSE k \in S : \A j \in S : j <= k][f]

\* C21: whatever the interleaving of the update calls on a post, each field
\* holds the value of the last committed update that supplied it, and a field
\* no update supplied holds the value it had before: two updates of disjoint
\* fields both show, and no update puts back an older value of a field it
\* did not supply
C21_LastWriteWinsPerField ==
    \A p \in DOMAIN voice_posts :
        \A f \in DOMAIN voice_posts[p] \ {"updated_at"} :
            voice_posts[p][f] = LastSupplied(f, resp.done, OnePost.posts[p])

\* An update of the post is committed, and now a second call holds its
\* uncommitted UPDATE while a third, of other fields, has opened its
\* connection
C21_Witness ==
    \E t, u \in Threads :
        /\ pc[t] = "updated"
        /\ pc[u] = "connected"
        /\ loc[t].post = loc[u].post
        /\ DOMAIN loc[t].kwargs \cap DOMAIN loc[u].kwargs = {}
        /\ Len(resp.done) >= 1


-----------------------------------------------------------------------------
(* register, User.create and Tag.create of requests served at the same time *)

\* Text of a form is a sequence of characters here
Ann == <<"a", "n", "n">>
Bob == <<"b", "o", "b">>
Al == <<"a", "l">>
AnnMail == <<"a", "@", "x">>
BobMail == <<"b", "@", "x">>
NoMail == <<"a", "x">>
Secret == <<"s", "e", "c", "r", "e", "t">>
Short == <<"p", "w">>

\* SIGNUP_CODE
SIGNUP_CODE == "VOICE2024"

\* The register forms
RegisterForms ==
    {[username |-> u, email |-> e, password |-> pw.p, confirm_password |-> pw.c,
      signup_code |-> code] :
        u \in {Ann, Bob, Al}, e \in {AnnMail, BobMail, NoMail},
        pw \in {[p |-> Secret, c |-> Secret], [p |-> Short, c |-> Short],
                [p |-> Secret, c |-> Short]},
        code \in {SIGNUP_CODE, "WRONG", NULL}}

\* register: the errors of the form itself
FormErrors(form) ==
    {e \in {"username", "email", "password", "confirm_password", "signup_code"} :
        CASE e = "username" -> Len(form.username) < 3
          [] e = "email" -> \A k \in DOMAIN form.email : form.email[k] # "@"
          [] e = "password" -> Len(form.password) < 6
          [] e = "confirm_password" -> form.password # form.confirm_password
          [] OTHER -> form.signup_code = NULL \/ form.signup_code # SIGNUP_CODE}

\* users without its UNIQUE constraints
InsertUserAllowedNoUnique(rows, row) == TRUE

\* username TEXT UNIQUE NOT NULL, email TEXT UNIQUE NOT NULL
InsertUserAllowed(rows, row) ==
    \A i \in DOMAIN rows :
        rows[i].username # row.username /\ rows[i].email # row.email

\* name TEXT UNIQUE NOT NULL
InsertTagAllowed(rows, row) == \A i \in DOMAIN rows : rows[i].name # row.name

\* id INTEGER PRIMARY KEY AUTOINCREMENT of a table no row is deleted from
NextId(rows) == Cardinality(DOMAIN rows) + 1

\* User.get_by_username and User.get_by_email: whether they return a user
UserBy(field, value) == \E i \in DOMAIN users : users[i][field] = value

TagNames == {"news"}

\* The answer of register
Registered(status) == resp' = [op |-> "register", status |-> status, shown |-> {}]

AuthStays == UNCHANGED <<dbVars, files, uploads, pureVars>>

\* register with a form that fails its validation: the two lookups change
\* nothing and the answer is 400
RegisterInvalid(t) ==
    /\ pc[t] = "idle"
    /\ calls.n < MaxCalls
    /\ calls' = [calls EXCEPT !.n = @ + 1]
    /\ \E form \in RegisterForms : FormErrors(form) # {}
    /\ Registered("400")
    /\ UNCHANGED <<pc, loc, txn, authVars>>
    /\ AuthStays

\* register: the form passes the validation of its fields
RegisterStart(t) ==
    /\ \E form \in RegisterForms :
          /\ FormErrors(form) = {}
          /\ StartCall(t, [op |-> "register", form |-> form, taken |-> FALSE],
                       "get_by_username")
    /\ UNCHANGED <<files, uploads, resp, pureVars, authVars>>

\* register: User.get_by_username(username)
RegisterUsername(t) ==
    /\ pc[t] = "get_by_username"
    /\ loc' = [loc EXCEPT ![t].taken = UserBy("username", loc[t].form.username)]
    /\ pc' = [pc EXCEPT ![t] = "get_by_email"]
    /\ UNCHANGED <<txn, calls, resp, authVars>>
    /\ AuthStays

\* register: User.get_by_email(email), and the answer when there are errors
RegisterEmail(t) ==
    /\ pc[t] = "get_by_email"
    /\ IF loc[t].taken \/ UserBy("email", loc[t].form.email)
       THEN /\ Registered("400")
            /\ EndCall(t)
       ELSE /\ pc' = [pc EXCEPT ![t] = "select"]
            /\ UNCHANGED <<loc, resp>>
    /\ UNCHANGED <<txn, calls, authVars>>
    /\ AuthStays

\* User.create: SELECT id FROM users WHERE username = ? OR email = ?; when a
\* row is found create returns None and login_user(None) fails
UserCreateSelect(t) ==
    /\ pc[t] = "select"
    /\ IF UserBy("username", loc[t].form.username) \/ UserBy("email", loc[t].form.email)
       THEN /\ Registered("500")
            /\ EndCall(t)
       ELSE /\ pc' = [pc EXCEPT ![t] = "insert"]
            /\ UNCHANGED <<loc, resp>>
    /\ UNCHANGED <<txn, calls, authVars>>
    /\ AuthStays

\* User.create: the INSERT; an IntegrityError is rolled back by get_db and
\* raised through register
UserCreateInsert(t) ==
    /\ pc[t] = "insert"
    /\ CanWrite(t)
    /\ LET row == [id |-> NextId(users), username |-> loc[t].form.username,
                   email |-> loc[t].form.email]
       IN  IF InsertUserAllowed(users, row)
           THEN /\ loc' = [loc EXCEPT ![t] =
                              [op |-> "User.create", form |-> loc[t].form,
                               id |-> row.id, rows |-> (row.id :> row) @@ users,
                               ret |-> "none"]]
                /\ pc' = [pc EXCEPT ![t] = "read_back"]
                /\ txn' = t
                /\ UNCHANGED resp
           ELSE /\ Registered("500")
                /\ EndCall(t)
                /\ UNCHANGED txn
    /\ UNCHANGED <<calls, authVars>>
    /\ AuthStays

\* Tag.create: the INSERT
TagCreateInsert(t) ==
    /\ pc[t] = "idle"
    /\ calls.n < MaxCalls
    /\ CanWrite(t)
    /\ \E name \in TagNames :
          LET row == [id |-> NextId(tags), name |-> name]
          IN  /\ InsertTagAllowed(tags, row)
              /\ loc' = [loc EXCEPT ![t] =
                             [op |-> "Tag.create", id |-> row.id,
                              rows |-> (row.id :> row) @@ tags, ret |-> "none"]]
    /\ calls' = [calls EXCEPT !.n = @ + 1]
    /\ pc' = [pc EXCEPT ![t] = "read_back"]
    /\ txn' = t
    /\ UNCHANGED <<resp, authVars>>
    /\ AuthStays

\* User.create and Tag.create: cls.get_by_id(id) inside the with block, on a
\* connection of its own, which reads the committed rows
ReadBack(t) ==
    /\ pc[t] = "read_back"
    /\ loc' = [loc EXCEPT ![t].ret =
                  IF loc[t].id \in DOMAIN (IF loc[t].op = "User.create" THEN users
                                           ELSE tags)
                  THEN "object" ELSE "None"]
    /\ pc' = [pc EXCEPT ![t] = "commit"]
    /\ UNCHANGED <<txn, calls, resp, authVars>>
    /\ AuthStays

\* get_db leaves the with block: conn.commit().  register then calls
\* login_user(user), which fails on None.
CommitCreate(t) ==
    /\ pc[t] = "commit"
    /\ loc[t].op \in {"User.create", "Tag.create"}
    /\ IF loc[t].op = "User.create"
       THEN /\ users' = loc[t].rows
            /\ Registered(IF loc[t].ret = "object" THEN "302" ELSE "500")
            /\ UNCHANGED tags
       ELSE /\ tags' = loc[t].rows
            /\ resp' = [op |-> "Tag.create", status |-> loc[t].ret, shown |-> {}]
            /\ UNCHANGED users
    /\ txn' = NoThread
    /\ EndCall(t)
    /\ UNCHANGED calls
    /\ AuthStays

NextAuth ==
    \/ \E t \in Threads : RegisterInvalid(t)
    \/ \E t \in Threads : RegisterStart(t)
    \/ \E t \in Threads : RegisterUsername(t)
    \/ \E t \in Threads : RegisterEmail(t)
    \/ \E t \in Threads : UserCreateSelect(t)
    \/ \E t \in Threads : UserCreateInsert(t)
    \/ \E t \in Threads : TagCreateInsert(t)
    \/ \E t \in Threads : ReadBack(t)
    \/ \E t \in Threads : CommitCreate(t)

SpecAuth == Init /\ [][NextAuth]_vars

\* C22: no two users have the same username and no two the same email, also
\* when two register requests for the same username or email run at the same
\* time; and a user row is only ever created by a register request whose
\* form passed the validation and whose username and email no user has
C22_UsersUnique ==
    [][/\ \A i, j \in DOMAIN users' :
             i # j => /\ users'[i].username # users'[j].username
                      /\ users'[i].email # users'[j].email
       /\ \A i \in DOMAIN users' \ DOMAIN users :
             \E t \in Threads :
                /\ pc[t] = "commit"
                /\ loc[t].op = "User.create"
                /\ FormErrors(loc[t].form) = {}
                /\ users'[i].username = loc[t].form.username
                /\ users'[i].email = loc[t].form.email
                /\ ~UserBy("username", loc[t].form.username)
                /\ ~UserBy("email", loc[t].form.email)
       /\ resp'.status = "400" => users' = users]_vars

\* Two register requests for one username ran at the same time: one user has
\* the name, and the other request holds an INSERT that the database is about
\* to refuse
C22_Witness ==
    \E t \in Threads, i \in DOMAIN users :
        /\ pc[t] = "insert"
        /\ loc[t].form.username = users[i].username

\* C28: when the INSERT of User.create or Tag.create succeeded, the read-back
\* by id that follows it found the row, so that create returns the object of
\* the row it goes on to commit
C28_CreateReturnsObject ==
    \A t \in Threads :
        (pc[t] = "commit" /\ loc[t].op \in {"User.create", "Tag.create"})
            => loc[t].ret = "object"

-----------------------------------------------------------------------------
(* Uploads with and without an AI credential, with and without ffmpeg *)

\* What process_audio_complete returns when neither key is configured
NoCredential ==
    {process_audio_complete(_get_api_provider(FALSE, FALSE), tr, ti, su) :
        tr \in TranscribeResults, ti \in TitleResults, su \in SummaryResults}

\* The inputs of the upload requests of SpecCreate
UploadInputs ==
    [RequestInputs EXCEPT !.titles = {<<>>, <<"Hello">>},
                          !.privacy = {"public"},
                          !.has_file = {TRUE},
                          !.files = {AudioFile("memo", "wav", 1), AudioFile("note", "mp3", 1)},
                          !.auto_process = {NoProcessing} \cup NoCredential,
                          !.hex = {"0a1b2c3d"},
                          !.conv = ConvOutcomes,
                          !.tags = {{}}]

\* The title create_post and upload_quick give a post without enrichment
UploadTitle(form_title, file) ==
    IF form_title = <<>> THEN splitext(file.filename)[1] ELSE form_title

\* An upload request; upl keeps what the request was and what it met: the
\* form's title, file and auto_process, how ffmpeg would end, whether the
\* slugs of the title were free, and the id the next post would get
UploadRequest(op, who, form_title, file, proc, conv) ==
    /\ upl' = [op |-> op, who |-> who, title |-> form_title, file |-> file,
               auto_process |-> proc # NoProcessing, conv |-> conv,
               free |-> SlugsFree(UploadTitle(form_title, file)),
               id |-> nextPostId]
    /\ UNCHANGED <<threadVars, title, slug, authVars>>

CreatePostUpload ==
    \E who \in Uploaders \ {Anonymous}, form_title \in UploadInputs.titles,
       file \in UploadInputs.files, proc \in UploadInputs.auto_process,
       conv \in UploadInputs.conv :
        /\ create_post(who, [UploadInputs EXCEPT !.titles = {form_title}, !.files = {file},
                                                 !.auto_process = {proc}, !.conv = {conv}])
        /\ UploadRequest("create_post", who, form_title, file, proc, conv)

UploadQuickUpload ==
    \E who \in Uploaders \ {Anonymous}, form_title \in UploadInputs.titles,
       file \in UploadInputs.files, conv \in UploadInputs.conv :
        /\ upload_quick(who, [UploadInputs EXCEPT !.titles = {form_title}, !.files = {file},
                                                  !.conv = {conv}])
        /\ UploadRequest("upload_quick", who, form_title, file, NoProcessing, conv)

NextCreate ==
    \/ CreatePostUpload
    \/ UploadQuickUpload

SpecCreate == Init /\ [][NextCreate]_vars

\* The last upload request stored a post
Stored == upl.op # "none" /\ upl.id \in DOMAIN voice_posts

\* C19: with no AI credential a create_post request with auto_process on and
\* a valid audio file stores a post and answers without an exception: the
\* post's transcript and summary are null and its title is the title of the
\* form or, when the form has none, the stem of the uploaded file's name
C19_NoCredentialStillCreates ==
    (upl.op = "create_post" /\ upl.auto_process /\ upl.free) =>
        /\ resp.op = "create_post"
        /\ resp.status \in {"200", "302"}
        /\ Stored
        /\ voice_posts[upl.id].user_id = upl.who
        /\ voice_posts[upl.id].transcript = NullPath
        /\ voice_posts[upl.id].summary = NullPath
        /\ voice_posts[upl.id].title = UploadTitle(upl.title, upl.file)

\* A post titled memo after an upload of memo.wav with no title and with
\* auto_process on
C19_Witness ==
    /\ upl.op = "create_post"
    /\ upl.auto_process
    /\ upl.title = <<>>
    /\ Stored
    /\ voice_posts[upl.id].title = <<"memo">>
    /\ voice_posts[upl.id].transcript = NullPath

\* C20: VoicePost.create of an upload that is no MP3, when ffmpeg is absent,
\* exits non-zero, writes an empty file or times out, stores the post with
\* converted_mp3_path null, and get_audio_url and get_audio_path of the post
\* lead to audio_filename; a stored converted_mp3_path that is not null is
\* the path of a converted file that exists, written by a conversion that
\* succeeded
C20_ConversionFallback ==
    /\ (/\ upl.op \in {"create_post", "upload_quick"}
        /\ upl.free
        /\ ~is_mp3(upl.file.filename)
        /\ upl.conv # "ok")
        => /\ Stored
           /\ voice_posts[upl.id].audio_filename \in files
           /\ voice_posts[upl.id].converted_mp3_path = NullPath
           /\ get_audio_url(voice_posts[upl.id])
                  = <<"/posts/audio/">> \o voice_posts[upl.id].audio_filename
           /\ get_audio_path(voice_posts[upl.id])
                  = UPLOAD_FOLDER \o voice_posts[upl.id].audio_filename
    /\ (Stored /\ voice_posts[upl.id].converted_mp3_path # NullPath)
        => upl.conv = "ok" /\ ~is_mp3(upl.file.filename)
    /\ \A i \in DOMAIN voice_posts :
          voice_posts[i].converted_mp3_path # NullPath =>
             /\ voice_posts[i].converted_mp3_path
                    = ConvertedPath(voice_posts[i].audio_filename)
             /\ voice_posts[i].converted_mp3_path \in files

\* A post stored without a converted file after ffmpeg failed on a WAV upload
C20_Witness ==
    /\ upl.op \in {"create_post", "upload_quick"}
    /\ upl.conv \in ConvOutcomes \ {"ok"}
    /\ ~is_mp3(upl.file.filename)
    /\ Stored
    /\ voice_posts[upl.id].converted_mp3_path = NullPath
    /\ get_audio_url(voice_posts[upl.id])
           = <<"/posts/audio/">> \o voice_posts[upl.id].audio_filename

-----------------------------------------------------------------------------
(* Uploads followed by processing requests *)

NextProcess ==
    \/ CreatePostUpload
    \/ UploadQuickUpload
    \/ ProcessPostBackground
    \/ ProcessPost

SpecProcess == Init /\ [][NextProcess]_vars

\* The results of process_audio_complete with an error, and those without
FailedResults == {proc \in ProcessResults : proc.error # NULL}

SuccessfulResults == ProcessResults \ FailedResults

C24_FilenameTitleReplaced ==
    (Stored /\ upl.title = <<>>) =>
        \A proc \in SuccessfulResults :
            ApplyUpdates(voice_posts, upl.id,
                         process_post_background_updates(voice_posts[upl.id], proc))
                [upl.id].title = proc.title

-----------------------------------------------------------------------------
(* The enrichment calls on their own *)

AudioPaths == {<<"memo", "_", hex, ".", "wav">> : hex \in HexSuffixes}

\* The environment of a call: whether each key is set
Keys == [gemini_key : BOOLEAN, openai_key : BOOLEAN]

EnrichCall(op, k, input, res) ==
    /\ upl' = [result |-> res, op |-> op, input |-> input, keys |-> k]
    /\ UNCHANGED <<dbVars, files, uploads, resp, threadVars, title, slug, authVars>>

TranscribeAudio ==
    \E k \in Keys, path \in AudioPaths, r \in TranscribeResults :
        EnrichCall("transcribe_audio", k, path,
                   transcribe_audio(_get_api_provider(k.gemini_key, k.openai_key), r))

GenerateTitle ==
    \E k \in Keys, tr \in TranscribeResults, r \in TitleResults :
        /\ tr.err = NULL
        /\ EnrichCall("generate_title", k, tr.val,
                      generate_title(_get_api_provider(k.gemini_key, k.openai_key), tr.val, r))

GenerateSummary ==
    \E k \in Keys, tr \in TranscribeResults, r \in SummaryResults :
        /\ tr.err = NULL
        /\ EnrichCall("generate_summary", k, tr.val,
                      generate_summary(_get_api_provider(k.gemini_key, k.openai_key), tr.val, r))

\* process_audio_complete; input: the file, and what transcribe_audio,
\* generate_title and generate_summary give when called
ProcessAudioComplete ==
    \E k \in Keys, path \in AudioPaths, r1 \in TranscribeResults, r2 \in TitleResults,
       r3 \in SummaryResults :
        LET provider == _get_api_provider(k.gemini_key, k.openai_key)
            tr == transcribe_audio(provider, r1)
        IN  EnrichCall("process_audio_complete", k,
                       [tr |-> tr,
                        ti |-> generate_title(provider, tr.val, r2),
                        su |-> generate_summary(provider, tr.val, r3),
                        audio_file_path |-> path],
                       process_audio_complete(provider, r1, r2, r3))

NextEnrich ==
    \/ TranscribeAudio
    \/ GenerateTitle
    \/ GenerateSummary
    \/ ProcessAudioComplete

SpecEnrich == Init /\ [][NextEnrich]_vars

\* C16: in process_audio_complete a transcription failure returns
\* (None, None, None, error) with the error of the transcription and calls
\* neither generate_title nor generate_summary; after a successful
\* transcription generate_title is called, then generate_summary
C16_TranscriptionFailureAborts ==
    upl.op = "process_audio_complete" =>
        IF upl.input.tr.err # NULL
        THEN /\ upl.result.transcript = NullPath
             /\ upl.result.title = <<>>
             /\ upl.result.summary = NullPath
             /\ upl.result.error = upl.input.tr.err
             /\ upl.result.calls = <<"transcribe_audio">>
        ELSE upl.result.calls = <<"transcribe_audio", "generate_title", "generate_summary">>

\* The composite was called with a key set and the provider failed to
\* transcribe
C16_Witness ==
    /\ upl.op = "process_audio_complete"
    /\ upl.keys.gemini_key
    /\ upl.input.tr.request
    /\ upl.input.tr.err # NULL

\* C17: when transcription succeeds, process_audio_complete returns no error;
\* a failed title generation gives the title derived from the audio file's
\* name, and a failed summary generation gives the first 200 characters of the
\* transcript as summary
C17_FallbackTitleAndSummary ==
    (upl.op = "process_audio_complete" /\ upl.input.tr.err = NULL) =>
        /\ upl.result.error = NULL
        /\ upl.input.ti.err # NULL =>
              upl.result.title = splitext(upl.input.audio_file_path)[1]
        /\ upl.input.su.err # NULL =>
              upl.result.summary =
                  SubSeq(upl.input.tr.val, 1, IF Len(upl.input.tr.val) < 20
                                              THEN Len(upl.input.tr.val) ELSE 20)

\* C18: with neither key set, transcribe_audio, generate_title and
\* generate_summary return None with the error that no key is configured and
\* ask no provider; with both keys set the provider asked is Gemini
C18_NoProviderNoResult ==
    /\ (upl.op \in {"transcribe_audio", "generate_title", "generate_summary"}
        /\ ~upl.keys.gemini_key /\ ~upl.keys.openai_key) =>
          /\ upl.result.val \in {NullPath, <<>>}
          /\ upl.result.err = NoApiKey
          /\ ~upl.result.request
    /\ _get_api_provider(TRUE, TRUE) = "gemini"

====
